---------------------------- MODULE Spec2Model ----------------------------
(***************************************************************************)
(* EduTutor AI: the result store (utils.py), the credential store          *)
(* (utils.py), the quiz generator and grader, study notes and flashcards   *)
(* (ai_engine.py), the dashboards' aggregations (app.py, utils.py) and the *)
(* student's Quiz tab (app.py).                                            *)
(*                                                                         *)
(* Text is a sequence of one-character strings, so that strip, lower,      *)
(* split, tokenisation and the CSV reader's type inference are computed.   *)
(***************************************************************************)
EXTENDS Integers, Naturals, Sequences, FiniteSets, TLC

(***************************************************************************)
(* Text helpers (Python str methods and re.findall)                        *)
(***************************************************************************)

UpperCase == <<"A","B","C","D","E","F","G","H","I","J","K","L","M",
               "N","O","P","Q","R","S","T","U","V","W","X","Y","Z">>

LowerCase == <<"a","b","c","d","e","f","g","h","i","j","k","l","m",
               "n","o","p","q","r","s","t","u","v","w","x","y","z">>

DigitChars == <<"0","1","2","3","4","5","6","7","8","9">>

Range(f) == {f[i] : i \in DOMAIN f}

\* str.lower() on one character
LowerChar(c) ==
    IF \E i \in DOMAIN UpperCase : UpperCase[i] = c
    THEN LowerCase[CHOOSE i \in DOMAIN UpperCase : UpperCase[i] = c]
    ELSE c

\* str.lower()
Lower(s) == [i \in DOMAIN s |-> LowerChar(s[i])]

\* the characters str.strip() and str.split() treat as whitespace
IsSpace(c) == c \in {" ", "\t", "\n", "\r"}

AlnumChars == Range(UpperCase) \cup Range(LowerCase) \cup Range(DigitChars)

\* the character class [A-Za-z0-9]
IsAlnum(c) == c \in AlnumChars

DigitSet == Range(DigitChars)

IsDigit(c) == c \in DigitSet

RECURSIVE LStrip(_)
LStrip(s) == IF s # <<>> /\ IsSpace(Head(s)) THEN LStrip(Tail(s)) ELSE s

RECURSIVE RStrip(_)
RStrip(s) ==
    IF s # <<>> /\ IsSpace(s[Len(s)]) THEN RStrip(SubSeq(s, 1, Len(s) - 1)) ELSE s

\* str.strip()
Strip(s) == RStrip(LStrip(s))

\* the first n elements: seq[:n]
Take(seq, n) == SubSeq(seq, 1, IF Len(seq) < n THEN Len(seq) ELSE n)

\* whether character c belongs to the class: "alnum" or "nonspace"
InClass(c, class) == IF class = "alnum" THEN IsAlnum(c) ELSE ~IsSpace(c)

\* the maximal runs of characters of a class, in order
RECURSIVE Runs(_, _, _)
Runs(s, cur, class) ==
    IF s = <<>> THEN (IF cur = <<>> THEN <<>> ELSE <<cur>>)
    ELSE IF InClass(Head(s), class) THEN Runs(Tail(s), Append(cur, Head(s)), class)
    ELSE (IF cur = <<>> THEN <<>> ELSE <<cur>>) \o Runs(Tail(s), <<>>, class)

\* re.findall(r"[A-Za-z0-9]+", s)
FindAlnum(s) == Runs(s, <<>>, "alnum")

\* str.split() without an argument: the runs of non-whitespace
SplitWs(s) == Runs(s, <<>>, "nonspace")

\* whether sep occurs in s at position i
MatchAt(s, sep, i) ==
    /\ i + Len(sep) - 1 <= Len(s)
    /\ \A k \in 1..Len(sep) : s[i + k - 1] = sep[k]

\* str.split(sep): the pieces between the occurrences of sep, empty ones kept
RECURSIVE SplitFrom(_, _, _, _)
SplitFrom(s, sep, i, cur) ==
    IF i > Len(s) THEN <<cur>>
    ELSE IF MatchAt(s, sep, i)
         THEN <<cur>> \o SplitFrom(s, sep, i + Len(sep), <<>>)
         ELSE SplitFrom(s, sep, i + 1, Append(cur, s[i]))

SplitOn(s, sep) == SplitFrom(s, sep, 1, <<>>)

\* sep.join(parts)
RECURSIVE Join(_, _)
Join(parts, sep) ==
    IF parts = <<>> THEN <<>>
    ELSE IF Len(parts) = 1 THEN parts[1]
    ELSE parts[1] \o sep \o Join(Tail(parts), sep)

\* str(n) for an integer n >= 0
RECURSIVE Digits(_)
Digits(n) ==
    IF n < 10 THEN <<DigitChars[n + 1]>>
    ELSE Append(Digits(n \div 10), DigitChars[(n % 10) + 1])

DigitValue(c) == (CHOOSE i \in DOMAIN DigitChars : DigitChars[i] = c) - 1

\* the value of a non-empty all-digit text
RECURSIVE ParseDigits(_)
ParseDigits(s) ==
    IF Len(s) = 1 THEN DigitValue(s[1])
    ELSE 10 * ParseDigits(SubSeq(s, 1, Len(s) - 1)) + DigitValue(s[Len(s)])

(***************************************************************************)
(* State                                                                   *)
(***************************************************************************)

VARIABLES
    \* the result store (utils.py)
    file,       \* student_data.csv: [exists, readable, rows], rows as written text
    pc,         \* session -> position in save_student_result
    row,        \* session -> the row dict of the call in progress
    df,         \* session -> the DataFrame load_student_data returned
    clock,      \* datetime.utcnow(), as a tick count
    written,    \* history: the row dicts of the calls that returned, in order
    raced,      \* history: a read or write happened inside another call's read..write
    \* generate_quiz_items (ai_engine.py)
    qin,        \* the arguments: [topic, subject, difficulty, num_mcq, num_short]
    mcqs,       \* _generate_mcq's questions list
    shorts,     \* _generate_short's questions list
    qpc,        \* position: "off", "mcq", "short", "done"
    quiz_items, \* the list generate_quiz_items returned
    drawn,      \* history: the letters random.choice returned in _generate_mcq
    \* grade_quiz_submission (ai_engine.py)
    items,          \* the items argument
    answers,        \* the answers argument: a function from item indices to texts
    gidx,           \* idx of the loop: the number of items graded so far
    score,          \* score
    feedback_list,  \* feedback_list
    weak_areas,     \* weak_areas, unfiltered
    gpc,            \* position: "off", "ready", "loop", "returned"
    result,         \* the dict returned
    marks,          \* history: for each graded item, whether it raised the score
    \* the dashboards (app.py) and the PDF report (utils.py)
    studentView,    \* "Progress & Reports": [made, rows, avg_score]
    teacherView,    \* teacher dashboard: [made, rows, class_avg, pivot, weak_counts]
    pdfReport,      \* export_pdf_report: [made, rows, avg, by_subject, weak]
    \* the credential store (utils.py)
    users,          \* users.json: the list of user dicts
    regResult,      \* the last register_user call: [called, email, before, ok, msg]
    authResult,     \* the last authenticate_user call: [called, email, password, user, history]
    firstReg,       \* history: the users in the order their registration succeeded
    \* study notes and flashcards (ai_engine.py)
    pipeline,       \* whether "from transformers import pipeline" succeeded
    llm,            \* the module global _llm: "none" or "loaded"
    notesCall,      \* the last generate_study_notes call: [called, case, args, raised, value]
    cardsCall,      \* the last generate_flashcards call: [called, case, args, raised, value]
    \* repeated grading
    graded,         \* history: [items, answers, result] of every call that returned
    \* the student's Quiz tab (app.py)
    widgets,        \* the inputs: [subject, difficulty, topic, num_mcq, num_short]
    session_items,  \* st.session_state.quiz_items
    madeWith,       \* history: the inputs the items of session_items were generated with
    flowLog         \* history: for every Submit Quiz, [row, madeWith, items]

storeVars == <<file, pc, row, df, clock, written, raced>>

quizVars == <<qin, mcqs, shorts, qpc, quiz_items, drawn>>

gradeVars == <<items, answers, gidx, score, feedback_list, weak_areas, gpc, result, marks>>

aggVars == <<studentView, teacherView, pdfReport>>

userVars == <<users, regResult, authResult, firstReg>>

genVars == <<pipeline, llm, notesCall, cardsCall>>

regradeVars == <<graded>>

flowVars == <<widgets, session_items, madeWith, flowLog>>

vars == <<storeVars, quizVars, gradeVars, aggVars, userVars, genVars, regradeVars, flowVars>>

\* what the result store's steps leave alone
notStore == <<quizVars, gradeVars, aggVars, userVars, genVars, regradeVars, flowVars>>

\* what the item generator's steps leave alone
notQuiz == <<storeVars, gradeVars, aggVars, userVars, genVars, regradeVars, flowVars>>

\* what the grader's steps leave alone
notGrade == <<storeVars, quizVars, aggVars, userVars, genVars, regradeVars, flowVars>>

\* what the dashboards leave alone, the data file apart
notAgg == <<quizVars, gradeVars, userVars, genVars, regradeVars, flowVars>>

\* what the credential store's operations leave alone
notUsers == <<storeVars, quizVars, gradeVars, aggVars, genVars, regradeVars, flowVars>>

\* what note and flashcard generation leave alone
notGen == <<storeVars, quizVars, gradeVars, aggVars, userVars, regradeVars, flowVars>>

(***************************************************************************)
(* Bounds and inputs                                                       *)
(***************************************************************************)

\* the number of save_student_result calls in one run
MaxSaves == 3

Sessions == {1, 2}

(***************************************************************************)
(* DataFrame cells and the CSV conversions (pandas to_csv / read_csv)      *)
(***************************************************************************)

\* the columns of the result store
Columns == <<"email", "student_name", "subject", "topic", "difficulty", "quiz_type",
             "score", "total", "timestamp", "weak_areas", "feedback_summary">>

ColSet == Range(Columns)

\* a Python str
StrCell(s) == [t |-> "str", s |-> s, n |-> 0]

\* a Python int / numpy int64
IntCell(n) == [t |-> "int", s |-> <<>>, n |-> n]

\* a numpy float64 holding the whole number n (printed n.0)
FloatCell(n) == [t |-> "float", s |-> <<>>, n |-> n]

\* numpy.nan
NaN == [t |-> "nan", s |-> <<>>, n |-> 0]

\* read_csv's default na_values
NAValues ==
    { <<>>, <<"#","N","/","A">>, <<"#","N","/","A"," ","N","/","A">>, <<"#","N","A">>,
      <<"-","1",".","#","I","N","D">>, <<"-","1",".","#","Q","N","A","N">>,
      <<"-","N","a","N">>, <<"-","n","a","n">>, <<"1",".","#","I","N","D">>,
      <<"1",".","#","Q","N","A","N">>, <<"<","N","A",">">>, <<"N","/","A">>,
      <<"N","A">>, <<"N","U","L","L">>, <<"N","a","N">>, <<"N","o","n","e">>,
      <<"n","/","a">>, <<"n","a","n">>, <<"n","u","l","l">> }

\* a text read_csv parses as an int64: digits only (leading zeros accepted)
IsIntText(s) == s # <<>> /\ \A i \in DOMAIN s : IsDigit(s[i])

\* a text read_csv parses as a float64 with a whole value: digits "." zeros
IsWholeFloatText(s) ==
    \E d \in 2..Len(s) :
        /\ s[d] = "."
        /\ d < Len(s)
        /\ IsIntText(SubSeq(s, 1, d - 1))
        /\ \A i \in (d + 1)..Len(s) : s[i] = "0"

WholeFloatValue(s) ==
    ParseDigits(SubSeq(s, 1, (CHOOSE d \in 2..Len(s) : s[d] = ".") - 1))

\* the dtype read_csv infers for a column from its fields' texts
ColumnKind(texts) ==
    LET present == {i \in DOMAIN texts : texts[i] \notin NAValues}
        anyNA   == \E i \in DOMAIN texts : texts[i] \in NAValues
    IN  IF present = {} THEN "float"
        ELSE IF \A i \in present : IsIntText(texts[i])
             THEN (IF anyNA THEN "float" ELSE "int")
        ELSE IF \A i \in present : IsIntText(texts[i]) \/ IsWholeFloatText(texts[i])
             THEN "float"
        ELSE "object"

\* the cell read_csv makes of one field in a column of the given dtype
ParseField(kind, text) ==
    IF text \in NAValues THEN NaN
    ELSE IF kind = "int" THEN IntCell(ParseDigits(text))
    ELSE IF kind = "float"
         THEN FloatCell(IF IsIntText(text) THEN ParseDigits(text) ELSE WholeFloatValue(text))
    ELSE StrCell(text)

\* pd.read_csv on the data lines: per-column type inference, NA detection
ReadCsv(lines) ==
    LET kind == [c \in ColSet |-> ColumnKind([i \in DOMAIN lines |-> lines[i][c]])]
    IN  [i \in DOMAIN lines |-> [c \in ColSet |-> ParseField(kind[c], lines[i][c])]]

\* the text to_csv writes for one cell (na_rep = "")
FieldText(cell) ==
    IF cell.t = "str" THEN cell.s
    ELSE IF cell.t = "int" THEN Digits(cell.n)
    ELSE IF cell.t = "float" THEN Digits(cell.n) \o <<".", "0">>
    ELSE <<>>

\* DataFrame.to_csv(index=False): the data lines
ToCsv(frame) == [i \in DOMAIN frame |-> [c \in ColSet |-> FieldText(frame[i][c])]]

(***************************************************************************)
(* The result store: save_student_result and load_student_data (utils.py)  *)
(***************************************************************************)

\* datetime.utcnow().isoformat() at tick n: a text that is no number and no NA
IsoFormat(n) == <<"T">> \o Digits(n)

Science == <<"S","c","i","e","n","c","e">>
Easy == <<"E","a","s","y">>
McqShort == <<"M","C","Q","+","S","h","o","r","t">>
StudentEmail == <<"s","@","x",".","i","o">>
StudentName == <<"S","a","m">>
Sets == <<"s","e","t","s">>
FbCorrect == <<"Q","1",":"," ","C","o","r","r","e","c","t",".">>
FbIncorrect == <<"Q","1",":"," ","I","n","c","o","r","r","e","c","t",".">>

\* one graded one-question quiz as student_dashboard passes it on (app.py 135-146)
Submission(topic, passed) ==
    [email |-> StudentEmail, student_name |-> StudentName, subject |-> Science,
     topic |-> topic, difficulty |-> Easy, quiz_type |-> McqShort,
     score |-> IF passed THEN 1 ELSE 0, total |-> 1,
     weak_areas |-> IF passed THEN <<>> ELSE topic,
     feedback_summary |-> IF passed THEN FbCorrect ELSE FbIncorrect]

\* the calls of save_student_result the model makes: a failed quiz on "sets", and
\* passed quizzes on the topics "NA" and "007"
SaveArgs ==
    { Submission(Sets, FALSE), Submission(<<"N","A">>, TRUE),
      Submission(<<"0","0","7">>, TRUE) }

NoRow == [c \in ColSet |-> NaN]

\* the row dict of save_student_result (lines 99-112)
RowDict(a, now) ==
    [c \in ColSet |->
        IF c = "score" THEN IntCell(a.score)
        ELSE IF c = "total" THEN IntCell(a.total)
        ELSE IF c = "timestamp" THEN StrCell(IsoFormat(now))
        ELSE StrCell(a[c])]

HeaderOnly == [exists |-> TRUE, readable |-> TRUE, rows |-> <<>>]

\* ensure_demo_files_exist on the data file: a missing file is created with headers
EnsureDemoFiles(f) == IF f.exists THEN f ELSE HeaderOnly

\* load_student_data: the frame read, an empty one when read_csv raises
LoadStudentData(f) ==
    LET g == EnsureDemoFiles(f)
    IN  IF g.readable THEN ReadCsv(g.rows) ELSE <<>>

\* a mutant of Concat: the new row replaces the frame
ConcatOnlyNew(frame, r) == <<r>>

\* pd.concat([df, pd.DataFrame([row])], ignore_index=True): values are kept as they are
Concat(frame, r) == Append(frame, r)

\* whether another session is between its read and its write
OtherInWindow(s) == \E o \in Sessions \ {s} : pc[o] \in {"loaded", "writing"}

\* save_student_result lines 98-112: ensure the files, take the time, build the row
BeginSave(s, a) ==
    /\ pc[s] = "idle"
    /\ clock < MaxSaves
    /\ file' = EnsureDemoFiles(file)
    /\ clock' = clock + 1
    /\ row' = [row EXCEPT ![s] = RowDict(a, clock + 1)]
    /\ pc' = [pc EXCEPT ![s] = "called"]
    /\ UNCHANGED <<df, written, raced>>
    /\ UNCHANGED notStore

\* save_student_result line 113: df = load_student_data()
LoadStep(s) ==
    /\ pc[s] = "called"
    /\ file' = EnsureDemoFiles(file)
    /\ df' = [df EXCEPT ![s] = LoadStudentData(file)]
    /\ pc' = [pc EXCEPT ![s] = "loaded"]
    /\ raced' = (raced \/ OtherInWindow(s))
    /\ UNCHANGED <<row, clock, written>>
    /\ UNCHANGED notStore

\* save_student_result line 115, first half: to_csv opens the file for writing,
\* which empties it; a reader now gets EmptyDataError
TruncateStep(s) ==
    /\ pc[s] = "loaded"
    /\ file' = [exists |-> TRUE, readable |-> FALSE, rows |-> <<>>]
    /\ pc' = [pc EXCEPT ![s] = "writing"]
    /\ raced' = (raced \/ OtherInWindow(s))
    /\ UNCHANGED <<row, df, clock, written>>
    /\ UNCHANGED notStore

\* save_student_result lines 114-115: concat, write the whole frame, return
WriteStep(s) ==
    /\ pc[s] \in {"loaded", "writing"}
    /\ file' = [exists |-> TRUE, readable |-> TRUE, rows |-> ToCsv(Concat(df[s], row[s]))]
    /\ written' = Append(written, row[s])
    /\ pc' = [pc EXCEPT ![s] = "idle"]
    /\ df' = [df EXCEPT ![s] = <<>>]
    /\ row' = [row EXCEPT ![s] = NoRow]
    /\ raced' = (raced \/ OtherInWindow(s))
    /\ UNCHANGED clock
    /\ UNCHANGED notStore

\* the environment removes the data file between two calls
RemoveFile ==
    /\ \A s \in Sessions : pc[s] = "idle"
    /\ file.exists
    /\ file' = [exists |-> FALSE, readable |-> FALSE, rows |-> <<>>]
    /\ UNCHANGED <<pc, row, df, clock, written, raced>>
    /\ UNCHANGED notStore

\* the environment damages the data file between two calls: its lines are still
\* there, read_csv raises on it
CorruptFile ==
    /\ \A s \in Sessions : pc[s] = "idle"
    /\ file.exists /\ file.readable
    /\ file' = [file EXCEPT !.readable = FALSE]
    /\ UNCHANGED <<pc, row, df, clock, written, raced>>
    /\ UNCHANGED notStore

\* the result store before any call: main() has created the files
StoreAtRest ==
    /\ file = HeaderOnly
    /\ pc = [s \in Sessions |-> "idle"]
    /\ row = [s \in Sessions |-> NoRow]
    /\ df = [s \in Sessions |-> <<>>]
    /\ clock = 0
    /\ written = <<>>
    /\ raced = FALSE

\* no quiz generation under way
QuizAtRest ==
    /\ qin = [topic |-> <<>>, subject |-> <<>>, difficulty |-> <<>>, num_mcq |-> 0,
              num_short |-> 0]
    /\ mcqs = <<>>
    /\ shorts = <<>>
    /\ qpc = "off"
    /\ quiz_items = <<>>
    /\ drawn = <<>>

NoResult == [score |-> 0, total |-> 0, feedback_list |-> <<>>, weak_areas |-> <<>>]

\* no grading under way
GradeAtRest ==
    /\ items = <<>>
    /\ answers = <<>>
    /\ gidx = 0
    /\ score = 0
    /\ feedback_list = <<>>
    /\ weak_areas = <<>>
    /\ gpc = "off"
    /\ result = NoResult
    /\ marks = <<>>

NoStudentView == [made |-> FALSE, rows |-> <<>>, avg_score |-> <<>>]

NoTeacherView ==
    [made |-> FALSE, rows |-> <<>>, class_avg |-> <<>>, pivot |-> <<>>, weak_counts |-> <<>>]

NoPdfReport == [made |-> FALSE, rows |-> <<>>, avg |-> <<>>, by_subject |-> <<>>, weak |-> <<>>]

\* nothing rendered
AggAtRest ==
    /\ studentView = NoStudentView
    /\ teacherView = NoTeacherView
    /\ pdfReport = NoPdfReport

\* DEMO_USERS (utils.py lines 18-21)
DemoUsers ==
    << [email |-> <<"s","t","u","d","e","n","t","@","e","x","a","m","p","l","e",".","c","o","m">>,
        password |-> <<"s","t","u","d","e","n","t","1","2","3">>, role |-> "student",
        name |-> <<"S","t","u","d","e","n","t"," ","D","e","m","o">>],
       [email |-> <<"t","e","a","c","h","e","r","@","e","x","a","m","p","l","e",".","c","o","m">>,
        password |-> <<"t","e","a","c","h","e","r","1","2","3">>, role |-> "teacher",
        name |-> <<"T","e","a","c","h","e","r"," ","D","e","m","o">>] >>

\* Python's None, where a user dict is expected
None == [email |-> <<>>, password |-> <<>>, role |-> "", name |-> <<>>]

NoRegistration == [called |-> FALSE, email |-> <<>>, before |-> <<>>, ok |-> FALSE, msg |-> ""]

NoAuthentication ==
    [called |-> FALSE, email |-> <<>>, password |-> <<>>, user |-> None, history |-> <<>>]

\* users.json as ensure_demo_files_exist writes it; nobody has signed up or logged in
UsersAtRest ==
    /\ users = DemoUsers
    /\ regResult = NoRegistration
    /\ authResult = NoAuthentication
    /\ firstReg = DemoUsers

NoCall == [called |-> FALSE, case |-> "", args |-> <<>>, raised |-> FALSE, value |-> <<>>]

\* nothing generated yet, _llm = None (ai_engine.py line 11), transformers not installed
GenAtRest ==
    /\ pipeline = FALSE
    /\ llm = "none"
    /\ notesCall = NoCall
    /\ cardsCall = NoCall

\* nothing graded yet
RegradeAtRest == graded = <<>>

\* SUBJECT_OPTIONS[0] (app.py line 24)
Mathematics == <<"M","a","t","h","e","m","a","t","i","c","s">>

\* the difficulty slider's default (app.py line 104)
Medium == <<"M","e","d","i","u","m">>

NoParams == [subject |-> <<>>, difficulty |-> <<>>, topic |-> <<>>]

\* the Quiz tab as first rendered (app.py lines 31-32 and 103-107): no quiz yet
FlowAtRest ==
    /\ widgets = [subject |-> Mathematics, difficulty |-> Medium, topic |-> <<>>,
                  num_mcq |-> 3, num_short |-> 2]
    /\ session_items = <<>>
    /\ madeWith = NoParams
    /\ flowLog = <<>>

InitStore == StoreAtRest /\ QuizAtRest /\ GradeAtRest /\ AggAtRest /\ UsersAtRest /\ GenAtRest /\ RegradeAtRest /\ FlowAtRest

\* one writer; the file may be removed or damaged between its calls
NextStore ==
    \/ \E a \in SaveArgs : BeginSave(1, a)
    \/ LoadStep(1)
    \/ WriteStep(1)
    \/ RemoveFile
    \/ CorruptFile

SpecStore == InitStore /\ [][NextStore]_vars

\* two sessions whose steps interleave; the file is left alone
NextRace ==
    \E s \in Sessions :
        \/ \E a \in SaveArgs : BeginSave(s, a)
        \/ LoadStep(s)
        \/ TruncateStep(s)
        \/ WriteStep(s)

SpecRace == InitStore /\ [][NextRace]_vars

AllIdle == \A s \in Sessions : pc[s] = "idle"

\* the timestamps the file holds
StoredStamps == {file.rows[i]["timestamp"] : i \in DOMAIN file.rows}

\* C1: a save by the single writer keeps every stored row as it was and adds one row
\* at the end.
C1_AppendOnly ==
    [][(pc[1] = "loaded" /\ pc'[1] = "idle") =>
          /\ Len(file'.rows) = Len(file.rows) + 1
          /\ \A i \in DOMAIN file.rows : file'.rows[i] = file.rows[i]]_vars

\* C2: when every call has returned and no read or write fell inside another call's
\* read..write window, the file holds the row of every call that returned.
C2_NoLossWithoutInterleaving ==
    (AllIdle /\ ~raced) =>
        \A j \in DOMAIN written : FieldText(written[j]["timestamp"]) \in StoredStamps

\* C2 witness: two calls interleaved, both returned, one of the two rows is in the file
C2_LostUpdate ==
    /\ AllIdle
    /\ raced
    /\ Len(written) = 2
    /\ Len(file.rows) = 1
    /\ \E j \in DOMAIN written : FieldText(written[j]["timestamp"]) \notin StoredStamps

\* C7: every row load_student_data returns equals, in all eleven columns, the row
\* dict that was written with it.
C7_RoundTrip ==
    (pc[1] = "idle" /\ file.exists /\ file.readable) =>
        \A i \in DOMAIN LoadStudentData(file) :
            \E j \in DOMAIN written : LoadStudentData(file)[i] = written[j]

(***************************************************************************)
(* The item generator (ai_engine.py)                                       *)
(***************************************************************************)

\* the templates of _generate_mcq (lines 102-114)
TxtOptionA ==
    <<"O","p","t","i","o","n"," ","A"," ","r","e","l","a","t","e","d"," ","t","o"," ">>

TxtOptionB ==
    <<"O","p","t","i","o","n"," ","B"," ","a","b","o","u","t"," ">>

TxtOptionC ==
    <<"O","p","t","i","o","n"," ","C"," ","f","a","c","t","u","a","l"," ","d","e","t",
      "a","i","l">>

TxtOptionD ==
    <<"O","p","t","i","o","n"," ","D"," ","c","o","m","m","o","n"," ","m","i","s","c",
      "o","n","c","e","p","t","i","o","n">>

TxtStemOn ==
    <<":"," ","O","n"," ","'">>

TxtStemWhich ==
    <<"'",","," ","w","h","i","c","h"," ","o","p","t","i","o","n"," ","i","s"," ","c",
      "o","r","r","e","c","t","?"," ","(","L","e","v","e","l",":"," ">>

TxtCloseParen ==
    <<")">>

TxtCorrectIs ==
    <<"T","h","e"," ","c","o","r","r","e","c","t"," ","a","n","s","w","e","r"," ","i",
      "s"," ">>

TxtDueTo ==
    <<" ","d","u","e"," ","t","o"," ","c","o","r","e"," ","c","o","n","c","e","p","t",
      " ","a","l","i","g","n","m","e","n","t",".">>

\* the templates of _generate_short (lines 122-130)
TxtExplain ==
    <<"E","x","p","l","a","i","n"," ","t","h","e"," ","c","o","n","c","e","p","t"," ",
      "o","f">>

TxtDefine ==
    <<"G","i","v","e"," ","a"," ","s","h","o","r","t"," ","d","e","f","i","n","i","t",
      "i","o","n"," ","o","f">>

TxtListTwo ==
    <<"L","i","s","t"," ","t","w","o"," ","k","e","y"," ","p","o","i","n","t","s"," ",
      "a","b","o","u","t">>

TxtDescribe ==
    <<"D","e","s","c","r","i","b","e"," ","a"," ","r","e","a","l","-","w","o","r","l",
      "d"," ","a","p","p","l","i","c","a","t","i","o","n"," ","o","f">>

TxtIn ==
    <<" ","i","n"," ">>

TxtLevel ==
    <<"."," ","(","L","e","v","e","l",":"," ">>

TxtIdealHead ==
    <<"A","n"," ","i","d","e","a","l"," ","a","n","s","w","e","r"," ","s","h","o","u",
      "l","d"," ","m","e","n","t","i","o","n"," ","t","h","e"," ","c","o","r","e"," ",
      "d","e","f","i","n","i","t","i","o","n",","," ","o","n","e"," ","e","x","a","m",
      "p","l","e",","," ","a","n","d"," ","a"," ">>

TxtIdealTail ==
    <<" ","n","u","a","n","c","e",".">>


\* the inputs of the quiz tab: topics as typed, two subjects' worth of text
TopicSets == <<"s","e","t","s">>
TopicSetsPadded == <<"s","e","t","s"," ">>
TopicHeat == <<"h","e","a","t"," ","f","l","o","w"," ","r","a","t","e"," ","d","a","t","a"," ","s","e","t","s">>
TopicAbc == <<"a","b","c">>
TopicComma == <<"S","e","t","s",","," ","m","a","p","s">>
Hard == <<"H","a","r","d">>

QuizTopics == {TopicSets, TopicSetsPadded, TopicHeat, TopicAbc, TopicComma}

QuizDifficulties == {Easy, Hard}

\* the largest num_mcq and num_short tried
MaxMcq == 2

MaxShort == 1

\* the population of random.choice in _generate_mcq (line 101)
Letters == <<"A", "B", "C", "D">>

\* ord(correct) - ord('A')
LetterOffset(correct) == (CHOOSE i \in DOMAIN Letters : Letters[i] = correct) - 1

\* the population of random.choice in _generate_short (lines 122-127)
Starters == <<TxtExplain, TxtDefine, TxtListTwo, TxtDescribe>>

\* the options list of _generate_mcq (lines 103-108)
McqOptions(topic, subject) ==
    <<TxtOptionA \o topic, TxtOptionB \o subject, TxtOptionC, TxtOptionD>>

\* a mutant of McqAnswer: the letter is stored instead of the option's text
McqAnswerLetter(options, correct) == <<correct>>

\* the answer of an mcq item (line 113): a 0-based list index
McqAnswer(options, correct) == options[LetterOffset(correct) + 1]

\* one dict of _generate_mcq (lines 101-116)
McqItem(topic, subject, difficulty, correct) ==
    [type |-> "mcq",
     question |-> subject \o TxtStemOn \o topic \o TxtStemWhich \o difficulty
                  \o TxtCloseParen,
     options |-> McqOptions(topic, subject),
     answer |-> McqAnswer(McqOptions(topic, subject), correct),
     explanation |-> TxtCorrectIs \o <<correct>> \o TxtDueTo,
     ideal_answer |-> <<>>,
     keywords |-> <<>>,
     topic_tag |-> topic]

\* the words of a list that are longer than 3 characters, stripped
RECURSIVE LongWords(_)
LongWords(words) ==
    IF words = <<>> THEN <<>>
    ELSE (IF Len(Head(words)) > 3 THEN <<Strip(Head(words))>> ELSE <<>>)
         \o LongWords(Tail(words))

\* [kw.strip() for kw in topic.split() if len(kw) > 3][:4] (line 135)
Keywords(topic) == Take(LongWords(SplitWs(topic)), 4)

\* one dict of _generate_short (lines 129-137)
ShortItem(topic, subject, difficulty, starter) ==
    [type |-> "short",
     question |-> starter \o <<" ">> \o topic \o TxtIn \o subject \o TxtLevel
                  \o difficulty \o TxtCloseParen,
     options |-> <<>>,
     answer |-> <<>>,
     explanation |-> <<>>,
     ideal_answer |-> TxtIdealHead \o Lower(difficulty) \o TxtIdealTail,
     keywords |-> Keywords(topic),
     topic_tag |-> topic]

\* a mutant of QuizList: the short items first
QuizListShortsFirst(m, s) == s \o m

\* generate_quiz_items line 144: mcqs + shorts
QuizList(m, s) == m \o s

\* generate_quiz_items is called (line 141) and _generate_mcq starts (line 99)
CallGenerate(topic, subject, difficulty, nm, ns) ==
    /\ qpc = "off"
    /\ qin' = [topic |-> topic, subject |-> subject, difficulty |-> difficulty,
               num_mcq |-> nm, num_short |-> ns]
    /\ mcqs' = <<>>
    /\ shorts' = <<>>
    /\ drawn' = <<>>
    /\ qpc' = "mcq"
    /\ UNCHANGED quiz_items
    /\ UNCHANGED notQuiz

\* one pass of the loop of _generate_mcq (lines 100-116)
McqIteration(correct) ==
    /\ qpc = "mcq"
    /\ Len(mcqs) < qin.num_mcq
    /\ mcqs' = Append(mcqs, McqItem(qin.topic, qin.subject, qin.difficulty, correct))
    /\ drawn' = Append(drawn, correct)
    /\ UNCHANGED <<qin, shorts, qpc, quiz_items>>
    /\ UNCHANGED notQuiz

\* _generate_mcq returns (line 117) and _generate_short starts (line 121)
McqReturn ==
    /\ qpc = "mcq"
    /\ Len(mcqs) >= qin.num_mcq
    /\ qpc' = "short"
    /\ UNCHANGED <<qin, mcqs, shorts, quiz_items, drawn>>
    /\ UNCHANGED notQuiz

\* one pass of the loop of _generate_short (lines 128-137)
ShortIteration(starter) ==
    /\ qpc = "short"
    /\ Len(shorts) < qin.num_short
    /\ shorts' = Append(shorts, ShortItem(qin.topic, qin.subject, qin.difficulty, starter))
    /\ UNCHANGED <<qin, mcqs, qpc, quiz_items, drawn>>
    /\ UNCHANGED notQuiz

\* _generate_short returns (line 138) and generate_quiz_items returns (line 144)
GenerateReturn ==
    /\ qpc = "short"
    /\ Len(shorts) >= qin.num_short
    /\ quiz_items' = QuizList(mcqs, shorts)
    /\ qpc' = "done"
    /\ UNCHANGED <<qin, mcqs, shorts, drawn>>
    /\ UNCHANGED notQuiz

InitQuiz == StoreAtRest /\ QuizAtRest /\ GradeAtRest /\ AggAtRest /\ UsersAtRest /\ GenAtRest /\ RegradeAtRest /\ FlowAtRest

NextQuiz ==
    \/ /\ qpc = "off"
       /\ \E topic \in QuizTopics, difficulty \in QuizDifficulties,
             nm \in 0..MaxMcq, ns \in 0..MaxShort :
               CallGenerate(topic, Science, difficulty, nm, ns)
    \/ \E correct \in Range(Letters) : McqIteration(correct)
    \/ McqReturn
    \/ \E starter \in Range(Starters) : ShortIteration(starter)
    \/ GenerateReturn

SpecQuiz == InitQuiz /\ [][NextQuiz]_vars

\* C5: generate_quiz_items returns num_mcq + num_short items, the first num_mcq of
\* type mcq and the rest of type short, whatever was drawn.
C5_CountAndOrder ==
    qpc = "done" =>
        /\ Len(quiz_items) = qin.num_mcq + qin.num_short
        /\ \A i \in 1..Len(quiz_items) :
              quiz_items[i].type = (IF i <= qin.num_mcq THEN "mcq" ELSE "short")

\* C5 witness: a returned quiz with mcq and short items
C5_MixedQuizReturned ==
    /\ qpc = "done"
    /\ qin.num_mcq = MaxMcq
    /\ qin.num_short = MaxShort
    /\ Len(quiz_items) = MaxMcq + MaxShort

\* C6: every mcq item built has four options, and its answer is the option at the
\* position of the letter that was drawn for it.
C6_AnswerAmongOptions ==
    \A i \in DOMAIN mcqs :
        /\ Len(mcqs[i].options) = 4
        /\ \E k \in 1..4 :
              /\ Letters[k] = drawn[i]
              /\ mcqs[i].answer = mcqs[i].options[k]
        /\ mcqs[i].answer \in Range(mcqs[i].options)

\* C6 witness: an item was built for each of the four letters
C6_EveryLetterDrawn ==
    /\ Len(mcqs) = MaxMcq
    /\ \E i \in DOMAIN mcqs : drawn[i] = "D"
    /\ \E i \in DOMAIN mcqs : drawn[i] = "A" /\ mcqs[i].answer = TxtOptionA \o qin.topic

(***************************************************************************)
(* The submission grader (ai_engine.py)                                    *)
(***************************************************************************)

\* the feedback templates of grade_quiz_submission (lines 161-175)
TxtCorrect ==
    <<":"," ","C","o","r","r","e","c","t",".">>

TxtIncorrect ==
    <<":"," ","I","n","c","o","r","r","e","c","t","."," ">>

TxtGood ==
    <<":"," ","G","o","o","d","."," ","C","o","v","e","r","e","d"," ","k","e","y"," ",
      "p","o","i","n","t","s",".">>

TxtNeeds ==
    <<":"," ","N","e","e","d","s"," ","i","m","p","r","o","v","e","m","e","n","t",".",
      " ","M","e","n","t","i","o","n",":"," ">>

TxtMoreSpecifics ==
    <<"m","o","r","e"," ","s","p","e","c","i","f","i","c","s">>

TxtCommaSpace ==
    <<","," ">>

\* the largest numbers of mcq and short items graded
MaxGradeMcq == 1

MaxGradeShort == 1

\* the topics of the graded quizzes: those of the quiz tab, and the empty topic that
\* generate_quiz_items accepts when called directly
GradeTopics == QuizTopics \cup {<<>>}

\* the letters drawn for the graded mcq items: an answer that ends with the topic,
\* and one that is a fixed text
GradeLetters == {"A", "C"}

\* what a learner can submit for an mcq item: an option as the radio button gives
\* it, or the right option pasted with blanks around it
McqAnswerChoices(item) ==
    {item.options[1], item.options[3], <<" ">> \o item.answer \o <<"\n">>}

\* what a learner can submit for a short item
ShortAnswerChoices ==
    { <<>>, <<" ", " ">>, <<"S","E","T","S">>, <<"s","e","t","s"," ","m","a","p","s">>,
      <<"h","e","a","t">>, <<"H","e","a","t","-","f","l","o","w",".">>,
      <<"h","e","a","t","f","l","o","w"," ","r","a","t","e">>, <<"d","a","t","a",";","r","a","t","e"," ","f","l","o","w">> }

AnswerChoices(item) ==
    IF item.type = "mcq" THEN McqAnswerChoices(item) ELSE ShortAnswerChoices

\* the item lists generate_quiz_items can return for the given draws
GeneratedItems(topic, letters, ns) ==
    QuizList([i \in DOMAIN letters |-> McqItem(topic, Science, Easy, letters[i])],
             [i \in 1..ns |-> ShortItem(topic, Science, Easy, TxtExplain)])

\* str(answers.get(f"q_{idx}", "")).strip() (lines 154-155), idx 0-based
UserAns(ans, idx) == Strip(IF idx \in DOMAIN ans THEN ans[idx] ELSE <<>>)

\* set(re.findall(r"[A-Za-z0-9]+", user_ans.lower())) (line 168)
UserTokens(user_ans) == Range(FindAlnum(Lower(user_ans)))

\* sum(1 for kw in keywords if kw.lower() in user_tokens) (line 169)
RECURSIVE KeywordHits(_, _)
KeywordHits(keywords, tokens) ==
    IF keywords = <<>> THEN 0
    ELSE (IF Lower(Head(keywords)) \in tokens THEN 1 ELSE 0)
         + KeywordHits(Tail(keywords), tokens)

\* [kw for kw in keywords if kw.lower() not in user_tokens] (line 174)
RECURSIVE Missed(_, _)
Missed(keywords, tokens) ==
    IF keywords = <<>> THEN <<>>
    ELSE (IF Lower(Head(keywords)) \notin tokens THEN <<Head(keywords)>> ELSE <<>>)
         \o Missed(Tail(keywords), tokens)

Max(a, b) == IF a >= b THEN a ELSE b

\* a mutant of ShortPasses: more than the threshold is asked for
ShortPassesStrict(keywords, user_ans) ==
    KeywordHits(keywords, UserTokens(user_ans)) > Max(1, Len(keywords) \div 2)

\* keyword_hits >= max(1, len(keywords) // 2) (line 170)
ShortPasses(keywords, user_ans) ==
    KeywordHits(keywords, UserTokens(user_ans)) >= Max(1, Len(keywords) \div 2)

\* a mutant of McqMatches: the item's answer is compared as it is stored
McqMatchesUntrimmed(item, user_ans) == user_ans = item.answer

\* user_ans == item["answer"].strip() (lines 158-159)
McqMatches(item, user_ans) == user_ans = Strip(item.answer)

\* f"Q{idx+1}" and what follows it
Feedback(idx, tail) == <<"Q">> \o Digits(idx + 1) \o tail

\* the effect of one pass of the loop (lines 154-176) on score, feedback_list and
\* weak_areas, for the item at 0-based index idx
GradeItem(item, user_ans, idx) ==
    IF item.type = "mcq"
    THEN IF McqMatches(item, user_ans)
         THEN [inc |-> 1, fb |-> Feedback(idx, TxtCorrect), weak |-> <<>>]
         ELSE [inc |-> 0, fb |-> Feedback(idx, TxtIncorrect \o item.explanation),
               weak |-> <<item.topic_tag>>]
    ELSE IF ShortPasses(item.keywords, user_ans)
         THEN [inc |-> 1, fb |-> Feedback(idx, TxtGood), weak |-> <<>>]
         ELSE LET miss == Missed(item.keywords, UserTokens(user_ans))
              IN  [inc |-> 0,
                   fb |-> Feedback(idx, TxtNeeds
                            \o (IF miss # <<>> THEN Join(miss, TxtCommaSpace)
                                ELSE TxtMoreSpecifics) \o <<".">>),
                   weak |-> IF miss # <<>> THEN miss ELSE <<item.topic_tag>>]

\* [w for w in weak_areas if w] (line 182)
RECURSIVE NonEmpty(_)
NonEmpty(ws) ==
    IF ws = <<>> THEN <<>>
    ELSE (IF Head(ws) # <<>> THEN <<Head(ws)>> ELSE <<>>) \o NonEmpty(Tail(ws))

\* grade_quiz_submission with score, feedback_list and weak_areas kept from the call
\* before, as module-level or default-argument accumulators would be
GradeCallKeepingTotals(its, ans) ==
    /\ gpc = "off"
    /\ items' = its
    /\ answers' = ans
    /\ gidx' = 0
    /\ marks' = <<>>
    /\ gpc' = "loop"
    /\ UNCHANGED <<score, feedback_list, weak_areas, result>>
    /\ UNCHANGED notGrade

\* grade_quiz_submission is called (lines 147-151)
GradeCall(its, ans) ==
    /\ gpc = "off"
    /\ items' = its
    /\ answers' = ans
    /\ gidx' = 0
    /\ score' = 0
    /\ feedback_list' = <<>>
    /\ weak_areas' = <<>>
    /\ marks' = <<>>
    /\ gpc' = "loop"
    /\ UNCHANGED result
    /\ UNCHANGED notGrade

\* one pass of the loop (lines 153-176)
GradeIteration ==
    /\ gpc = "loop"
    /\ gidx < Len(items)
    /\ LET g == GradeItem(items[gidx + 1], UserAns(answers, gidx), gidx)
       IN  /\ score' = score + g.inc
           /\ feedback_list' = Append(feedback_list, g.fb)
           /\ weak_areas' = weak_areas \o g.weak
           /\ marks' = Append(marks, g.inc = 1)
    /\ gidx' = gidx + 1
    /\ UNCHANGED <<items, answers, gpc, result>>
    /\ UNCHANGED notGrade

\* the return (lines 178-183)
GradeReturn ==
    /\ gpc = "loop"
    /\ gidx >= Len(items)
    /\ result' = [score |-> score, total |-> Len(items), feedback_list |-> feedback_list,
                  weak_areas |-> NonEmpty(weak_areas)]
    /\ gpc' = "returned"
    /\ UNCHANGED <<items, answers, gidx, score, feedback_list, weak_areas, marks>>
    /\ UNCHANGED notGrade

InitGrade == StoreAtRest /\ QuizAtRest /\ GradeAtRest /\ AggAtRest /\ UsersAtRest /\ GenAtRest /\ RegradeAtRest /\ FlowAtRest

\* the submissions graded: generated items, and for each a missing or a chosen answer
NextGrade ==
    \/ /\ gpc = "off"
       /\ \E topic \in GradeTopics, nm \in 0..MaxGradeMcq, ns \in 0..MaxGradeShort :
            \E letters \in [1..nm -> GradeLetters] :
              LET its == GeneratedItems(topic, letters, ns)
              IN  \E keys \in SUBSET (0..(Len(its) - 1)) :
                    \E ans \in [keys -> UNION {AnswerChoices(its[i]) : i \in DOMAIN its}] :
                        /\ \A k \in keys : ans[k] \in AnswerChoices(its[k + 1])
                        /\ GradeCall(its, ans)
    \/ GradeIteration
    \/ GradeReturn

SpecGrade == InitGrade /\ [][NextGrade]_vars


\* the answer submitted for the i-th item (1-based), "" when the key is missing
RawAnswer(i) == IF (i - 1) \in DOMAIN answers THEN answers[i - 1] ELSE <<>>

\* the number of the i-th item's keywords whose lowercase form is a lowercase
\* alphanumeric token of the submitted answer
HitCount(i) ==
    Cardinality({k \in DOMAIN items[i].keywords :
                   Lower(items[i].keywords[k]) \in Range(FindAlnum(Lower(RawAnswer(i))))})

Threshold(i) == Max(1, Len(items[i].keywords) \div 2)

\* whether text sub occurs in text s
Contains(s, sub) == \E k \in 1..(Len(s) + 1) : MatchAt(s, sub, k)

\* C3: a graded short item raises the score, with feedback "Good. Covered key
\* points.", exactly when its keyword hits reach max(1, len(keywords) div 2); a
\* missing or blank answer fails it.
C3_ShortThreshold ==
    \A i \in 1..gidx :
        items[i].type = "short" =>
            /\ marks[i] = (HitCount(i) >= Threshold(i))
            /\ (feedback_list[i] = Feedback(i - 1, TxtGood)) = (HitCount(i) >= Threshold(i))
            /\ (Strip(RawAnswer(i)) = <<>> => ~marks[i])

\* C3 witness: a short item with four keywords passed on exactly two hits
C3_PassAtThreshold ==
    \E i \in 1..gidx :
        /\ items[i].type = "short"
        /\ Len(items[i].keywords) = 4
        /\ HitCount(i) = 2
        /\ marks[i]
        /\ feedback_list[i] = Feedback(i - 1, TxtGood)

\* what C4 says of a graded mcq item once the call has returned, for a given test
\* of "the answer is right"
McqGradedAs(i, right) ==
    /\ marks[i] = right
    /\ right => feedback_list[i] = Feedback(i - 1, TxtCorrect)
    /\ ~right =>
          /\ Contains(feedback_list[i], items[i].explanation)
          /\ (items[i].topic_tag \in Range(result.weak_areas))
                = (items[i].topic_tag # <<>>)

\* C4 as claimed: an mcq item is right exactly when the trimmed submitted answer
\* equals item.answer.
C4_McqExactMatch ==
    gpc = "returned" =>
        \A i \in DOMAIN items :
            items[i].type = "mcq" =>
                McqGradedAs(i, Strip(RawAnswer(i)) = items[i].answer)

\* C4 as amended: an mcq item is right exactly when the trimmed submitted answer
\* equals the trimmed item.answer; the score is the number of right items.
C4_McqTrimmedMatch ==
    gpc = "returned" =>
        /\ \A i \in DOMAIN items :
              items[i].type = "mcq" =>
                  McqGradedAs(i, Strip(RawAnswer(i)) = Strip(items[i].answer))
        /\ result.score = Cardinality({i \in DOMAIN items : marks[i]})

\* C4 witness: the right option, which ends with a blank, was chosen as the radio
\* button gives it and counted as right
C4_PaddedOptionCorrect ==
    /\ gpc = "returned"
    /\ \E i \in DOMAIN items :
          /\ items[i].type = "mcq"
          /\ RawAnswer(i) = items[i].answer
          /\ items[i].answer # Strip(items[i].answer)
          /\ marks[i]
          /\ feedback_list[i] = Feedback(i - 1, TxtCorrect)


(***************************************************************************)
(* The analytics: student and teacher dashboards (app.py) and the PDF      *)
(* report (utils.py)                                                       *)
(***************************************************************************)

History == <<"H","i","s","t","o","r","y">>
OtherEmail == <<"t","@","x",".","i","o">>
OtherName == <<"T","o","m">>

\* a save_student_result call with the given fields
Attempt(email, name, subject, sc, tot, weak) ==
    [email |-> email, student_name |-> name, subject |-> subject, topic |-> Sets,
     difficulty |-> Easy, quiz_type |-> McqShort, score |-> sc, total |-> tot,
     weak_areas |-> weak, feedback_summary |-> FbIncorrect]

\* the attempts the dashboards are tried on: two learners, two subjects, joined weak
\* areas, a passed quiz and an attempt saved with no items
AggArgs ==
    { Attempt(StudentEmail, StudentName, Science, 3, 5, <<"h","e","a","t",","," ","f","l","o","w",","," ","r","a","t","e">>),
      Attempt(StudentEmail, StudentName, Science, 5, 5, <<>>),
      Attempt(StudentEmail, StudentName, History, 0, 0, <<>>),
      Attempt(StudentEmail, StudentName, History, 1, 4, <<"d","a","t","a",","," ","s","e","t","s",","," ","m","a","p","s">>),
      Attempt(OtherEmail, OtherName, History, 2, 4, <<"r","a","t","e",","," ","h","e","a","t",","," ","H","e","a","t">>) }

\* head(5) in teacher_dashboard (line 215)
TeacherTopN == 5

\* [:6] in export_pdf_report (line 189)
PdfTopN == 6

\* a percentage as the fraction n / d; NanPct is numpy.nan
Pct(s, tot) == [n |-> s * 100, d |-> tot]

ZeroPct == [n |-> 0, d |-> 1]

NanPct == [n |-> 0, d |-> 0]

\* df[column].sum() of an integer column
RECURSIVE SumCol(_, _)
SumCol(frame, c) ==
    IF frame = <<>> THEN 0 ELSE Head(frame)[c].n + SumCol(Tail(frame), c)

\* the rows of a frame whose cell in column c is among the given cells, in order
RECURSIVE RowsWhere(_, _, _)
RowsWhere(frame, c, cells) ==
    IF frame = <<>> THEN <<>>
    ELSE (IF Head(frame)[c] \in cells THEN <<Head(frame)>> ELSE <<>>)
         \o RowsWhere(Tail(frame), c, cells)

\* (df["score"].sum() / df["total"].sum()) * 100
RatioPct(frame) == Pct(SumCol(frame, "score"), SumCol(frame, "total"))

\* avg_score of student_dashboard (line 161) and class_avg of teacher_dashboard (195)
AvgOrZero(frame) == IF SumCol(frame, "total") > 0 THEN RatioPct(frame) ELSE ZeroPct

\* the lambda of teacher_dashboard's groupby (line 205)
AvgOrNan(frame) == IF SumCol(frame, "total") > 0 THEN RatioPct(frame) ELSE NanPct

\* avg of export_pdf_report (line 161) and the lambda of its groupby (line 171)
AvgIfAny(frame) == IF SumCol(frame, "total") # 0 THEN RatioPct(frame) ELSE ZeroPct

\* the position of a character in ASCII order, among blanks, digits and letters
CharRank(c) ==
    LET table == DigitChars \o UpperCase \o LowerCase
    IN  IF \E i \in DOMAIN table : table[i] = c
        THEN CHOOSE i \in DOMAIN table : table[i] = c
        ELSE 0

\* a < b for two texts, as Python compares str
RECURSIVE TextLess(_, _)
TextLess(a, b) ==
    IF b = <<>> THEN FALSE
    ELSE IF a = <<>> THEN TRUE
    ELSE IF Head(a) # Head(b) THEN CharRank(Head(a)) < CharRank(Head(b))
    ELSE TextLess(Tail(a), Tail(b))

\* sorted(S) for a set of texts
RECURSIVE SortTexts(_)
SortTexts(S) ==
    IF S = {} THEN <<>>
    ELSE LET m == CHOOSE x \in S : \A y \in S \ {x} : TextLess(x, y)
         IN  <<m>> \o SortTexts(S \ {m})

\* the group keys of df.groupby("subject"): the subjects present, sorted
SubjectKeys(frame) ==
    SortTexts({frame[i]["subject"].s : i \in {j \in DOMAIN frame : frame[j]["subject"].t = "str"}})

\* df.groupby("subject").apply(f) with f one of the averages above, in key order
BySubject(frame, which) ==
    LET keys == SubjectKeys(frame)
    IN  [k \in DOMAIN keys |->
            LET g == RowsWhere(frame, "subject", {StrCell(keys[k])})
            IN  [subject |-> keys[k],
                 pct |-> IF which = "teacher" THEN AvgOrNan(g) ELSE AvgIfAny(g)]]

\* a.pct > b.pct for two percentages that are numbers
PctGreater(a, b) == a.n * b.d > b.n * a.d

\* Series.sort_values(ascending=False): a stable descending order
RECURSIVE SortPctDesc(_)
SortPctDesc(entries) ==
    IF entries = <<>> THEN <<>>
    ELSE LET best == CHOOSE k \in DOMAIN entries :
                        /\ \A j \in DOMAIN entries : ~PctGreater(entries[j].pct, entries[k].pct)
                        /\ \A j \in 1..(k - 1) : PctGreater(entries[k].pct, entries[j].pct)
         IN  <<entries[best]>>
             \o SortPctDesc([j \in 1..(Len(entries) - 1) |->
                               IF j < best THEN entries[j] ELSE entries[j + 1]])

\* the concatenation of a sequence of sequences
RECURSIVE Flatten(_)
Flatten(ss) == IF ss = <<>> THEN <<>> ELSE Head(ss) \o Flatten(Tail(ss))

\* df.dropna(subset=["weak_areas"]): the weak_areas cells that are not NaN
RECURSIVE WeakCells(_)
WeakCells(frame) ==
    IF frame = <<>> THEN <<>>
    ELSE (IF Head(frame)["weak_areas"].t # "nan" THEN <<Head(frame)["weak_areas"]>>
          ELSE <<>>) \o WeakCells(Tail(frame))

\* the distinct elements of a list, in the order of their first occurrence
RECURSIVE FirstSeen(_)
FirstSeen(flat) ==
    IF flat = <<>> THEN <<>>
    ELSE LET before == FirstSeen(SubSeq(flat, 1, Len(flat) - 1))
         IN  IF flat[Len(flat)] \in Range(before) THEN before
             ELSE Append(before, flat[Len(flat)])

CountOf(x, flat) == Cardinality({i \in DOMAIN flat : flat[i] = x})

\* the keys by descending count, equal counts in the order given
RECURSIVE RankDesc(_, _)
RankDesc(keys, flat) ==
    IF keys = <<>> THEN <<>>
    ELSE LET best == CHOOSE k \in DOMAIN keys :
                        /\ \A j \in DOMAIN keys : CountOf(keys[j], flat) <= CountOf(keys[k], flat)
                        /\ \A j \in 1..(k - 1) : CountOf(keys[j], flat) < CountOf(keys[k], flat)
         IN  <<[topic |-> keys[best], count |-> CountOf(keys[best], flat)]>>
             \o RankDesc([j \in 1..(Len(keys) - 1) |->
                            IF j < best THEN keys[j] ELSE keys[j + 1]], flat)

\* Series.value_counts(), and sorted(counts.items(), key=lambda x: -x[1]) over a dict
\* filled in list order: descending counts, ties in first-seen order
ValueCounts(flat) == RankDesc(FirstSeen(flat), flat)

\* teacher_dashboard lines 209-213: split every weak_areas text on ", " and explode
TeacherTopics(frame) ==
    LET cells == WeakCells(frame)
    IN  Flatten([i \in DOMAIN cells |-> SplitOn(FieldText(cells[i]), TxtCommaSpace)])

\* [a.strip() for a in areas.split(",") if a.strip()] (utils.py line 187)
RECURSIVE StripParts(_)
StripParts(parts) ==
    IF parts = <<>> THEN <<>>
    ELSE (IF Strip(Head(parts)) # <<>> THEN <<Strip(Head(parts))>> ELSE <<>>)
         \o StripParts(Tail(parts))

\* export_pdf_report lines 180-188: split every weak_areas text on "," and strip
PdfTopics(frame) ==
    LET cells == WeakCells(frame)
    IN  Flatten([i \in DOMAIN cells |-> StripParts(SplitOn(FieldText(cells[i]), <<",">>))])

\* weak_counts of teacher_dashboard (line 215)
TeacherWeak(frame) == Take(ValueCounts(TeacherTopics(frame)), TeacherTopN)

\* the weak areas export_pdf_report lists (line 189)
PdfWeak(frame) == Take(ValueCounts(PdfTopics(frame)), PdfTopN)

\* "Submit Quiz" to the end of save_student_result, in one script run (app.py 135-146,
\* utils.py 98-115); what was rendered before is gone
SubmitResult(a) ==
    /\ \A s \in Sessions : pc[s] = "idle"
    /\ clock < MaxSaves
    /\ clock' = clock + 1
    /\ file' = [exists |-> TRUE, readable |-> TRUE,
                rows |-> ToCsv(Concat(LoadStudentData(EnsureDemoFiles(file)),
                                      RowDict(a, clock + 1)))]
    /\ written' = Append(written, RowDict(a, clock + 1))
    /\ studentView' = NoStudentView
    /\ teacherView' = NoTeacherView
    /\ pdfReport' = NoPdfReport
    /\ UNCHANGED <<pc, row, df, raced>>
    /\ UNCHANGED notAgg

\* student_dashboard, "Progress & Reports" (app.py 149-162) for the user logged in
ShowStudentProgress(email) ==
    /\ \A s \in Sessions : pc[s] = "idle"
    /\ file' = EnsureDemoFiles(file)
    /\ LET df_user == RowsWhere(LoadStudentData(file), "email", {StrCell(email)})
       IN  studentView' =
              IF df_user = <<>> THEN NoStudentView
              ELSE [made |-> TRUE, rows |-> df_user, avg_score |-> AvgOrZero(df_user)]
    /\ UNCHANGED <<pc, row, df, clock, written, raced, teacherView, pdfReport>>
    /\ UNCHANGED notAgg

\* "Export PDF Report" (app.py 165-166) and export_pdf_report (utils.py 154-190)
ExportPdfReport(email) ==
    /\ \A s \in Sessions : pc[s] = "idle"
    /\ file' = EnsureDemoFiles(file)
    /\ LET df_user == RowsWhere(LoadStudentData(file), "email", {StrCell(email)})
       IN  /\ df_user # <<>>
           /\ pdfReport' = [made |-> TRUE, rows |-> df_user, avg |-> AvgIfAny(df_user),
                            by_subject |-> SortPctDesc(BySubject(df_user, "pdf")),
                            weak |-> PdfWeak(df_user)]
    /\ UNCHANGED <<pc, row, df, clock, written, raced, studentView, teacherView>>
    /\ UNCHANGED notAgg

\* teacher_dashboard (app.py 174-218) with the two multiselect filters
ShowTeacherDashboard(student_filter, subject_filter) ==
    /\ \A s \in Sessions : pc[s] = "idle"
    /\ file' = EnsureDemoFiles(file)
    /\ LET frame == LoadStudentData(file)
           by_student == IF student_filter = {} THEN frame
                         ELSE RowsWhere(frame, "student_name",
                                        {StrCell(x) : x \in student_filter})
           df_v == IF subject_filter = {} THEN by_student
                   ELSE RowsWhere(by_student, "subject", {StrCell(x) : x \in subject_filter})
       IN  teacherView' =
              IF df_v = <<>> THEN NoTeacherView
              ELSE [made |-> TRUE, rows |-> df_v, class_avg |-> AvgOrZero(df_v),
                    pivot |-> BySubject(df_v, "teacher"),
                    weak_counts |-> TeacherWeak(df_v)]
    /\ UNCHANGED <<pc, row, df, clock, written, raced, studentView, pdfReport>>
    /\ UNCHANGED notAgg

InitAgg == StoreAtRest /\ QuizAtRest /\ GradeAtRest /\ AggAtRest /\ UsersAtRest /\ GenAtRest /\ RegradeAtRest /\ FlowAtRest

NextAgg ==
    \/ \E a \in AggArgs : SubmitResult(a)
    \/ \E email \in {StudentEmail, OtherEmail} : ShowStudentProgress(email)
    \/ \E email \in {StudentEmail, OtherEmail} : ExportPdfReport(email)
    \/ \E student_filter \in {{}, {StudentName}}, subject_filter \in {{}, {History}} :
          ShowTeacherDashboard(student_filter, subject_filter)

SpecAgg == InitAgg /\ [][NextAgg]_vars


\* C8: the teacher dashboard and the PDF report, computed on the same rows, list the
\* same weak areas with the same counts in the same order, five at most.
C8_SameTopFive ==
    (teacherView.made /\ pdfReport.made /\ teacherView.rows = pdfReport.rows) =>
        /\ teacherView.weak_counts = pdfReport.weak
        /\ Len(teacherView.weak_counts) <= 5
        /\ Len(pdfReport.weak) <= 5

\* whether v is 100 * sum(score) / sum(total) over the rows, and 0 when sum(total) = 0
IsAverageOf(v, frame) ==
    IF SumCol(frame, "total") = 0 THEN v.d # 0 /\ v.n = 0
    ELSE v.d # 0 /\ v.n * SumCol(frame, "total") = 100 * SumCol(frame, "score") * v.d

\* C9: every average rendered (the learner's, the class's, each subject's on the
\* teacher dashboard and in the PDF report) is 100 * sum(score) / sum(total) over its
\* rows, and 0 when sum(total) is 0.
C9_AveragesAreRatios ==
    /\ studentView.made => IsAverageOf(studentView.avg_score, studentView.rows)
    /\ teacherView.made =>
          /\ IsAverageOf(teacherView.class_avg, teacherView.rows)
          /\ \A k \in DOMAIN teacherView.pivot :
                IsAverageOf(teacherView.pivot[k].pct,
                            RowsWhere(teacherView.rows, "subject",
                                      {StrCell(teacherView.pivot[k].subject)}))
    /\ pdfReport.made =>
          /\ IsAverageOf(pdfReport.avg, pdfReport.rows)
          /\ \A k \in DOMAIN pdfReport.by_subject :
                IsAverageOf(pdfReport.by_subject[k].pct,
                            RowsWhere(pdfReport.rows, "subject",
                                      {StrCell(pdfReport.by_subject[k].subject)}))


(***************************************************************************)
(* The credential store: register_user and authenticate_user (utils.py).   *)
(* Each call runs to completion before the next begins.                    *)
(***************************************************************************)

\* what the sign-up and login forms are filled with
EmailInputs == { <<"a","@","x">>, <<" ","A","@","X"," ">>, <<"b","@","x">>,
                 <<"s","t","u","d","e","n","t","@","e","x","a","m","p","l","e",".","c","o","m">>, <<>> }

PasswordInputs == { <<"p","1">>, <<" ","p","1"," ">>, <<"p","2">> }

NameInputs == { <<"A","l">> }

RoleInputs == {"student", "admin"}

\* (email or "").strip().lower()
NormalizeEmail(email) == Lower(Strip(email))

\* any(u.get("name") == email for u in users): the check on the wrong key
EmailTakenByName(us, email) == \E i \in DOMAIN us : us[i].name = email

\* any(u.get("email") == email for u in users)
EmailTaken(us, email) == \E i \in DOMAIN us : us[i].email = email

\* register_user's result: the list to save and the (ok, message) pair
RegisterOutcome(us, name, email, password, role) ==
    LET e == NormalizeEmail(email)
        p == Strip(password)
        n == Strip(name)
    IN  IF e = <<>> \/ p = <<>> \/ role \notin {"student", "teacher"}
        THEN [users |-> us, ok |-> FALSE,
              msg |-> "Please provide name, email, password, and valid role."]
        ELSE IF EmailTaken(us, e)
        THEN [users |-> us, ok |-> FALSE, msg |-> "Email already registered."]
        ELSE [users |-> Append(us, [email |-> e, password |-> p, role |-> role, name |-> n]),
              ok |-> TRUE, msg |-> "Registered"]

\* the index of the first user whose email and password both match, 0 if none
FirstMatch(us, email, password) ==
    LET hits == {i \in DOMAIN us : us[i].email = email /\ us[i].password = password}
    IN  IF hits = {} THEN 0 ELSE CHOOSE i \in hits : \A j \in hits : i <= j

\* authenticate_user's return value
AuthOutcome(us, email, password) ==
    LET i == FirstMatch(us, NormalizeEmail(email), Strip(password))
    IN  IF i = 0 THEN None ELSE us[i]

RegisterUser(name, email, password, role) ==
    LET out == RegisterOutcome(users, name, email, password, role)
    IN  /\ users' = out.users
        /\ regResult' = [called |-> TRUE, email |-> email, before |-> users,
                         ok |-> out.ok, msg |-> out.msg]
        /\ firstReg' = IF out.ok THEN Append(firstReg, out.users[Len(out.users)])
                       ELSE firstReg
        /\ UNCHANGED authResult
        /\ UNCHANGED notUsers

AuthenticateUser(email, password) ==
    /\ authResult' = [called |-> TRUE, email |-> email, password |-> password,
                      user |-> AuthOutcome(users, email, password),
                      history |-> firstReg]
    /\ UNCHANGED <<users, regResult, firstReg>>
    /\ UNCHANGED notUsers

InitUsers == StoreAtRest /\ QuizAtRest /\ GradeAtRest /\ AggAtRest /\ UsersAtRest /\ GenAtRest /\ RegradeAtRest /\ FlowAtRest

NextUsers ==
    \/ \E name \in NameInputs, email \in EmailInputs, password \in PasswordInputs,
          role \in RoleInputs : RegisterUser(name, email, password, role)
    \/ \E email \in EmailInputs, password \in PasswordInputs :
          AuthenticateUser(email, password)

SpecUsers == InitUsers /\ [][NextUsers]_vars

\* the emails a list of users holds
Emails(us) == {us[i].email : i \in DOMAIN us}

\* the earliest successful registration of an email in a history, None if there is none
FirstRegistered(history, email) ==
    LET hits == {i \in DOMAIN history : history[i].email = email}
    IN  IF hits = {} THEN None ELSE history[CHOOSE i \in hits : \A j \in hits : i <= j]

\* C10: starting from the demo users, no two stored users share an email; a
\* register_user call whose trimmed, lower-cased email is already stored fails and
\* leaves the store as it was; authenticate_user returns either None or the user of
\* the first successful registration, up to that call, of the trimmed, lower-cased
\* email, and it does return that user when the trimmed password is the one
\* registered then.
C10_FirstRegistrationWins ==
    /\ \A i, j \in DOMAIN users : users[i].email = users[j].email => i = j
    /\ (regResult.called /\ Lower(Strip(regResult.email)) \in Emails(regResult.before)) =>
          ~regResult.ok /\ users = regResult.before
    /\ authResult.called =>
          LET first == FirstRegistered(authResult.history, Lower(Strip(authResult.email)))
          IN  /\ authResult.user \in {None, first}
              /\ (first # None /\ Strip(authResult.password) = first.password) =>
                    authResult.user = first

\* C10's case: an email registered on top of the demo users was offered again in
\* another spelling, the call was refused, and a login under another spelling than
\* the stored one got the user of the first registration.
C10_DuplicateRefused ==
    /\ regResult.called /\ ~regResult.ok
    /\ regResult.msg = "Email already registered."
    /\ Len(users) > Len(DemoUsers)
    /\ \E i \in DOMAIN users :
          /\ i > Len(DemoUsers)
          /\ users[i].email = Lower(Strip(regResult.email))
          /\ users[i].email # regResult.email
          /\ authResult.called /\ authResult.user = users[i]
          /\ authResult.email # users[i].email


(***************************************************************************)
(* Study notes and flashcards: _get_llm_pipeline, generate_study_notes and *)
(* generate_flashcards (ai_engine.py). The text model is the environment:  *)
(* loading it succeeds or raises, a call raises or returns a text.         *)
(***************************************************************************)

\* the least value of the "Number of flashcards" slider (app.py line 91)
MinCards == 3

\* the largest number of flashcards asked for
MaxCards == 6

CardCounts == {MinCards, MaxCards}

\* what the text model may do when called: raise, or return a continuation
ReplyRaises == [exc |-> "RuntimeError", text |-> <<>>]

\* out is an empty list: out[0] raises IndexError inside the try block
ReplyMalformed == [exc |-> "IndexError", text |-> <<>>]

ReplyTexts ==
    { <<>>,
      <<" "," ","n","o"," "," ","b","a","r","s","\n","h","e","r","e"," ">>,
      <<"Q",":"," ","|"," ","A",":"," ","b","\n","|"," ","A",":","\n","Q",":"," ","a"," ","|">>,
      <<"Q",":"," ","a"," ","|"," ","A",":"," ","b","\n","n","o"," ","b","a","r","\n","Q",":"," ","|"," ","A",":"," ","c","\n">>,
      <<"Q",":"," ","a"," ","|"," ","A",":"," ","b","\n"," ","c"," ","|"," ","d",":"," ","e",":"," ","f"," ","\n","Q",":","g","|","A",":","h","\n","Q",":"," ","i"," ","|"," ","A",":"," ","j">> }

Replies == {ReplyRaises, ReplyMalformed} \cup {[exc |-> "", text |-> x] : x \in ReplyTexts}

\* the classes "except Exception" handles (lines 45 and 92)
IsException(exc) == exc \in {"RuntimeError", "IndexError", "KeyError", "ValueError"}

\* _get_llm_pipeline: the value of _llm after the call; loads says whether
\* pipeline("text-generation", ...) returns rather than raises
GetLlmPipeline(cur, imported, loads) ==
    IF cur # "none" THEN cur
    ELSE IF ~imported THEN "none"
    ELSE IF loads THEN "loaded" ELSE "none"

\* re.sub(r"\s+", " ", text)
RECURSIVE CollapseSpace(_)
CollapseSpace(s) ==
    IF s = <<>> THEN <<>>
    ELSE IF IsSpace(Head(s)) THEN <<" ">> \o CollapseSpace(LStrip(s))
    ELSE <<Head(s)>> \o CollapseSpace(Tail(s))

\* _clean_text
CleanText(text) == Strip(CollapseSpace(text))

\* header of generate_study_notes (line 32), topic already stripped:
\* "Subject: {subject} | Difficulty: {difficulty}\nTopic: {topic}\n\n"
NotesHeader(topic, subject, difficulty) ==
    <<"S","u","b","j","e","c","t",":"," ">> \o subject
        \o <<" ","|"," ","D","i","f","f","i","c","u","l","t","y",":"," ">>
        \o difficulty \o <<"\n","T","o","p","i","c",":"," ">> \o topic
        \o <<"\n","\n">>

\* points (lines 49-55):
\*   "Core concept overview of '{topic}'."
\*   "Key formulas/definitions relevant to {subject}."
\*   "Common pitfalls and misconceptions."
\*   "Examples ranging from {difficulty.lower()} to challenging."
\*   "Mini checklist for quick revision."
NotesPoints(topic, subject, difficulty) ==
    << <<"C","o","r","e"," ","c","o","n","c","e","p","t"," ","o","v","e","r","v","i","e","w"," ","o","f"," ","'">>
           \o topic \o <<"'",".">>,
       <<"K","e","y"," ","f","o","r","m","u","l","a","s","/","d","e","f","i","n","i","t","i","o","n","s"," ","r","e","l","e","v","a","n","t"," ","t","o"," ">>
           \o subject \o <<".">>,
       <<"C","o","m","m","o","n"," ","p","i","t","f","a","l","l","s"," ","a","n","d"," ","m","i","s","c","o","n","c","e","p","t","i","o","n","s",".">>,
       <<"E","x","a","m","p","l","e","s"," ","r","a","n","g","i","n","g"," ","f","r","o","m"," ">>
           \o Lower(difficulty) \o <<" ","t","o"," ","c","h","a","l","l","e","n","g","i","n","g",".">>,
       <<"M","i","n","i"," ","c","h","e","c","k","l","i","s","t"," ","f","o","r"," ","q","u","i","c","k"," ","r","e","v","i","s","i","o","n",".">> >>

\* bullets (line 56): "\n".join([f"- {p}" for p in points])
NotesBullets(points) ==
    Join([i \in DOMAIN points |-> <<"-"," ">> \o points[i]], <<"\n">>)

\* the fallback notes (line 57)
NotesFallback(topic, subject, difficulty) ==
    NotesHeader(topic, subject, difficulty)
        \o NotesBullets(NotesPoints(topic, subject, difficulty))

\* which way a call goes: the flag is off, there is no model, the model call raises,
\* or the model returned a text
CaseOf(use_llm, handle, reply) ==
    IF ~use_llm THEN "off"
    ELSE IF handle = "none" THEN "unavailable"
    ELSE IF reply.exc # "" THEN "throws"
    ELSE "model"

\* generate_study_notes, with the handle _get_llm_pipeline returned and the model's
\* reply: whether it raises and what it returns
NotesOutcome(topic, subject, difficulty, use_llm, handle, reply) ==
    LET t == Strip(topic)
        c == CaseOf(use_llm, handle, reply)
    IN  IF c = "model"
        THEN [raised |-> FALSE,
              value |-> NotesHeader(t, subject, difficulty) \o CleanText(reply.text)]
        ELSE IF c = "throws" /\ ~IsException(reply.exc)
        THEN [raised |-> TRUE, value |-> <<>>]
        ELSE [raised |-> FALSE, value |-> NotesFallback(t, subject, difficulty)]

\* base_cards (lines 61-67):
\*   "Define the main idea of {topic} in {subject}.", "The main idea is ... (level {difficulty})."
\*   "Give an example related to {topic}.", "An example is ... relevant to {subject}."
\*   "State a common misconception about {topic}.", "A misconception is ... and the correction is ..."
\*   "Provide a key formula/theorem for {topic}.", "One key formula/theorem is ..."
\*   "Explain how to apply {topic} in practice.", "Apply it by ..."
BaseCards(topic, subject, difficulty) ==
    << << <<"D","e","f","i","n","e"," ","t","h","e"," ","m","a","i","n"," ","i","d","e","a"," ","o","f"," ">>
              \o topic \o <<" ","i","n"," ">> \o subject \o <<".">>,
          <<"T","h","e"," ","m","a","i","n"," ","i","d","e","a"," ","i","s"," ",".",".","."," ","(","l","e","v","e","l"," ">>
              \o difficulty \o <<")",".">> >>,
       << <<"G","i","v","e"," ","a","n"," ","e","x","a","m","p","l","e"," ","r","e","l","a","t","e","d"," ","t","o"," ">>
              \o topic \o <<".">>,
          <<"A","n"," ","e","x","a","m","p","l","e"," ","i","s"," ",".",".","."," ","r","e","l","e","v","a","n","t"," ","t","o"," ">>
              \o subject \o <<".">> >>,
       << <<"S","t","a","t","e"," ","a"," ","c","o","m","m","o","n"," ","m","i","s","c","o","n","c","e","p","t","i","o","n"," ","a","b","o","u","t"," ">>
              \o topic \o <<".">>,
          <<"A"," ","m","i","s","c","o","n","c","e","p","t","i","o","n"," ","i","s"," ",".",".","."," ","a","n","d"," ","t","h","e"," ","c","o","r","r","e","c","t","i","o","n"," ","i","s"," ",".",".",".">> >>,
       << <<"P","r","o","v","i","d","e"," ","a"," ","k","e","y"," ","f","o","r","m","u","l","a","/","t","h","e","o","r","e","m"," ","f","o","r"," ">>
              \o topic \o <<".">>,
          <<"O","n","e"," ","k","e","y"," ","f","o","r","m","u","l","a","/","t","h","e","o","r","e","m"," ","i","s"," ",".",".",".">> >>,
       << <<"E","x","p","l","a","i","n"," ","h","o","w"," ","t","o"," ","a","p","p","l","y"," ">>
              \o topic \o <<" ","i","n"," ","p","r","a","c","t","i","c","e",".">>,
          <<"A","p","p","l","y"," ","i","t"," ","b","y"," ",".",".",".">> >> >>

\* seq * k
RECURSIVE Repeat(_, _)
Repeat(seq, k) == IF k <= 0 THEN <<>> ELSE seq \o Repeat(seq, k - 1)

\* cards (lines 69-70)
FallbackCards(topic, subject, difficulty, num_cards) ==
    LET base == BaseCards(topic, subject, difficulty)
    IN  Take(Repeat(base, (num_cards + Len(base) - 1) \div Len(base)), num_cards)

\* str.splitlines(), for texts whose only line break is "\n"
SplitLines(text) ==
    LET pieces == SplitOn(text, <<"\n">>)
    IN  IF pieces[Len(pieces)] = <<>> THEN SubSeq(pieces, 1, Len(pieces) - 1) ELSE pieces

\* the position of the first c in s, 0 if there is none
IndexOf(s, c) ==
    IF \E i \in DOMAIN s : s[i] = c
    THEN CHOOSE i \in DOMAIN s : s[i] = c /\ \A j \in 1..(i - 1) : s[j] # c
    ELSE 0

\* s.split(c, 1)[0]
BeforeFirst(s, c) == IF IndexOf(s, c) = 0 THEN s ELSE SubSeq(s, 1, IndexOf(s, c) - 1)

\* s.split(c, 1)[-1]
AfterFirst(s, c) == IF IndexOf(s, c) = 0 THEN s ELSE SubSeq(s, IndexOf(s, c) + 1, Len(s))

\* the loop of lines 83-89
RECURSIVE ParsePairs(_)
ParsePairs(lines) ==
    IF lines = <<>> THEN <<>>
    ELSE LET line == Head(lines)
             q == Strip(AfterFirst(BeforeFirst(line, "|"), ":"))
             a == Strip(AfterFirst(AfterFirst(line, "|"), ":"))
         IN  (IF IndexOf(line, "|") # 0 /\ q # <<>> /\ a # <<>> THEN << <<q, a>> >> ELSE <<>>)
             \o ParsePairs(Tail(lines))

\* len(pairs) >= 0: the parsed pairs are returned even when there are none
PairsReturnedAlways(pairs) == Len(pairs) >= 0

\* len(pairs) >= 1 (line 90)
PairsReturned(pairs) == Len(pairs) >= 1

\* generate_flashcards
CardsOutcome(topic, subject, difficulty, num_cards, use_llm, handle, reply) ==
    LET cards == FallbackCards(topic, subject, difficulty, num_cards)
        c == CaseOf(use_llm, handle, reply)
        pairs == ParsePairs(SplitLines(reply.text))
    IN  IF c = "model" /\ PairsReturned(pairs)
        THEN [raised |-> FALSE, value |-> Take(pairs, num_cards)]
        ELSE IF c = "throws" /\ ~IsException(reply.exc)
        THEN [raised |-> TRUE, value |-> <<>>]
        ELSE [raised |-> FALSE, value |-> cards]

\* "Generate Notes" with a non-empty topic (app.py lines 79-83)
GenerateStudyNotes(topic, subject, difficulty, use_llm, loads, reply) ==
    LET handle == IF use_llm THEN GetLlmPipeline(llm, pipeline, loads) ELSE llm
        out == NotesOutcome(topic, subject, difficulty, use_llm, handle, reply)
    IN  /\ llm' = handle
        /\ notesCall' = [called |-> TRUE, case |-> CaseOf(use_llm, handle, reply),
                         args |-> <<topic, subject, difficulty>>,
                         raised |-> out.raised, value |-> out.value]
        /\ UNCHANGED <<pipeline, cardsCall>>
        /\ UNCHANGED notGen

\* "Generate Flashcards" with a non-empty topic (app.py lines 92-96)
GenerateFlashcards(topic, subject, difficulty, num_cards, use_llm, loads, reply) ==
    LET handle == IF use_llm THEN GetLlmPipeline(llm, pipeline, loads) ELSE llm
        out == CardsOutcome(topic, subject, difficulty, num_cards, use_llm, handle, reply)
        c == CaseOf(use_llm, handle, reply)
    IN  /\ llm' = handle
        /\ cardsCall' = [called |-> TRUE,
                         case |-> IF c = "model" /\ ParsePairs(SplitLines(reply.text)) = <<>>
                                  THEN "unparsable" ELSE c,
                         args |-> <<topic, subject, difficulty, num_cards>>,
                         raised |-> out.raised, value |-> out.value]
        /\ UNCHANGED <<pipeline, notesCall>>
        /\ UNCHANGED notGen

\* the program starts with transformers installed or not
InitGen ==
    /\ StoreAtRest /\ QuizAtRest /\ GradeAtRest /\ AggAtRest /\ UsersAtRest
    /\ RegradeAtRest /\ FlowAtRest
    /\ pipeline \in BOOLEAN
    /\ llm = "none"
    /\ notesCall = NoCall
    /\ cardsCall = NoCall

NextGen ==
    \/ \E topic \in {TopicSets, TopicSetsPadded}, use_llm \in BOOLEAN, loads \in BOOLEAN,
          reply \in Replies :
          GenerateStudyNotes(topic, Science, Hard, use_llm, loads, reply)
    \/ \E topic \in {TopicSets, TopicSetsPadded}, num_cards \in CardCounts,
          use_llm \in BOOLEAN, loads \in BOOLEAN, reply \in Replies :
          GenerateFlashcards(topic, Science, Hard, num_cards, use_llm, loads, reply)

SpecGen == InitGen /\ [][NextGen]_vars

FallbackCases == {"off", "unavailable", "throws", "unparsable"}

\* C11: generate_study_notes and generate_flashcards never raise and never return an
\* empty result; when use_llm is off, the model is unavailable, the model call throws
\* or (flashcards) the model's text has no parsable '|' line, they return the fallback:
\* the header and five templated bullet lines, and exactly num_cards templated pairs.
C11_FallbackNeverFails ==
    /\ notesCall.called =>
          /\ ~notesCall.raised
          /\ notesCall.value # <<>>
          /\ notesCall.case \in FallbackCases =>
                LET t == Strip(notesCall.args[1])
                    body == SubSeq(notesCall.value,
                                   Len(NotesHeader(t, notesCall.args[2], notesCall.args[3])) + 1,
                                   Len(notesCall.value))
                    breaks == {i \in DOMAIN body : body[i] = "\n"}
                IN  /\ notesCall.value = NotesFallback(t, notesCall.args[2], notesCall.args[3])
                    /\ Cardinality(breaks) = 4
                    /\ \A i \in {0} \cup breaks : SubSeq(body, i + 1, i + 2) = <<"-", " ">>
    /\ cardsCall.called =>
          /\ ~cardsCall.raised
          /\ cardsCall.value # <<>>
          /\ cardsCall.case \in FallbackCases =>
                LET base == BaseCards(cardsCall.args[1], cardsCall.args[2], cardsCall.args[3])
                IN  /\ Len(cardsCall.value) = cardsCall.args[4]
                    /\ \A i \in DOMAIN cardsCall.value :
                          cardsCall.value[i] = base[((i - 1) % 5) + 1]

\* C11's case: the model was loaded, the notes call met a raising model and the
\* flashcards call a text with '|' lines none of which parses, and both returned
\* their fallback.
C11_FellBackOnFailure ==
    /\ llm = "loaded"
    /\ notesCall.called /\ notesCall.case = "throws" /\ ~notesCall.raised
    /\ cardsCall.called /\ cardsCall.case = "unparsable" /\ ~cardsCall.raised
    /\ Len(cardsCall.value) = MaxCards


(***************************************************************************)
(* Grading again: grade_quiz_submission called repeatedly, the item        *)
(* generator running in between.                                           *)
(***************************************************************************)

\* the number of grade_quiz_submission calls in one run
MaxGradings == 3

\* one generated quiz on "sets" and one on "heat flow rate data sets"
SetsQuiz == GeneratedItems(TopicSets, <<"A">>, 1)

HeatQuiz == GeneratedItems(TopicHeat, <<"C">>, 1)

\* the submissions graded again and again: every answer right, the MCQ wrong and the
\* short answer missing, nothing answered
Regraded ==
    { [items |-> SetsQuiz, answers |-> (0 :> SetsQuiz[1].answer @@ 1 :> <<"S","E","T","S">>)],
      [items |-> SetsQuiz, answers |-> (0 :> SetsQuiz[1].options[3])],
      [items |-> HeatQuiz, answers |-> <<>>] }

\* the caller has the dict grade_quiz_submission returned (app.py line 130)
TakeResult ==
    /\ gpc = "returned"
    /\ graded' = Append(graded, [items |-> items, answers |-> answers, result |-> result])
    /\ gpc' = "off"
    /\ UNCHANGED <<items, answers, gidx, score, feedback_list, weak_areas, result, marks>>
    /\ UNCHANGED <<storeVars, quizVars, aggVars, userVars, genVars, flowVars>>

InitRegrade ==
    /\ StoreAtRest /\ QuizAtRest /\ GradeAtRest /\ AggAtRest /\ UsersAtRest /\ GenAtRest
    /\ RegradeAtRest /\ FlowAtRest

NextRegrade ==
    \/ /\ gpc = "off"
       /\ Len(graded) < MaxGradings
       /\ \E s \in Regraded : GradeCall(s.items, s.answers)
    \/ GradeIteration
    \/ GradeReturn
    \/ TakeResult
    \/ CallGenerate(TopicSets, Science, Easy, 1, 1)
    \/ \E correct \in Range(Letters) : McqIteration(correct)
    \/ McqReturn
    \/ ShortIteration(TxtExplain)
    \/ GenerateReturn

SpecRegrade == InitRegrade /\ [][NextRegrade]_vars

\* C12: two grade_quiz_submission calls with the same (items, answers), whatever was
\* graded or generated in between, return the same score, total, feedback_list and
\* weak_areas, and a call in progress changes neither items nor answers.
C12_SameInputSameResult ==
    /\ [](\A i, j \in DOMAIN graded :
            (graded[i].items = graded[j].items /\ graded[i].answers = graded[j].answers)
                => graded[i].result = graded[j].result)
    /\ [][gpc = "loop" => (items' = items /\ answers' = answers)]_vars

\* C12's case: a submission that scored was graded, another was graded after it, the
\* first was graded again with the same result, and a quiz was generated meanwhile.
C12_GradedTwice ==
    /\ Len(graded) = 3
    /\ graded[1].items = graded[3].items /\ graded[1].answers = graded[3].answers
    /\ graded[2].answers # graded[1].answers
    /\ graded[1].result.score > 0
    /\ graded[3].result = graded[1].result
    /\ qpc = "done"


(***************************************************************************)
(* The student's Quiz tab (app.py lines 102-147): the inputs, Create Quiz  *)
(* and Submit Quiz, each a script run of student_dashboard.                *)
(***************************************************************************)

\* the number of Submit Quiz clicks in one run
MaxSubmits == 1

\* what the inputs are set to
FlowSubjects == {Mathematics, Science}

FlowDifficulties == {Medium, Hard}

FlowTopics == {<<>>, TopicSets, TopicAbc}

FlowMcqCounts == {1, 3}

\* the letters random.choice returns while a quiz is created
FlowLetters == {"A", "C"}

\* grade_quiz_submission as a whole (ai_engine.py lines 147-183), graded from idx on
RECURSIVE GradeFrom(_, _, _)
GradeFrom(its, ans, idx) ==
    IF idx >= Len(its) THEN [score |-> 0, feedback_list |-> <<>>, weak_areas |-> <<>>]
    ELSE LET g == GradeItem(its[idx + 1], UserAns(ans, idx), idx)
             rest == GradeFrom(its, ans, idx + 1)
         IN  [score |-> g.inc + rest.score,
              feedback_list |-> <<g.fb>> \o rest.feedback_list,
              weak_areas |-> g.weak \o rest.weak_areas]

GradeQuizSubmission(its, ans) ==
    LET r == GradeFrom(its, ans, 0)
    IN  [score |-> r.score, total |-> Len(its), feedback_list |-> r.feedback_list,
         weak_areas |-> NonEmpty(r.weak_areas)]

\* the answers dict as the form holds it (lines 117-126): the radio's first option and
\* an empty text area when untouched, or the right option and the topic typed in
FormAnswers(its, filled) ==
    [k \in 0..(Len(its) - 1) |->
        IF its[k + 1].type = "mcq"
        THEN (IF filled THEN its[k + 1].answer ELSE its[k + 1].options[1])
        ELSE (IF filled THEN its[k + 1].topic_tag ELSE <<>>)]

\* the keyword arguments of save_student_result (lines 134-146)
SaveCall(w, res) ==
    [email |-> StudentEmail, student_name |-> StudentName, subject |-> w.subject,
     topic |-> Take(w.topic, 100), difficulty |-> w.difficulty, quiz_type |-> McqShort,
     score |-> res.score, total |-> res.total,
     weak_areas |-> Join(res.weak_areas, TxtCommaSpace),
     feedback_summary |-> Take(Join(res.feedback_list, <<";", " ">>), 500)]

\* an input widget is changed; the script reruns with no button pressed
EditInput(name, value) ==
    /\ Len(flowLog) < MaxSubmits
    /\ widgets[name] # value
    /\ widgets' = [widgets EXCEPT ![name] = value]
    /\ UNCHANGED <<session_items, madeWith, flowLog>>
    /\ UNCHANGED <<storeVars, quizVars, gradeVars, aggVars, userVars, genVars, regradeVars>>

\* "Create Quiz" (lines 108-113); letters are the random.choice draws
CreateQuiz(letters) ==
    /\ Len(flowLog) < MaxSubmits
    /\ IF Strip(widgets.topic) = <<>>
       THEN UNCHANGED <<session_items, madeWith>>
       ELSE /\ session_items' =
                  QuizList([i \in 1..widgets.num_mcq |->
                               McqItem(widgets.topic, widgets.subject, widgets.difficulty,
                                       letters[i])],
                           [i \in 1..widgets.num_short |->
                               ShortItem(widgets.topic, widgets.subject, widgets.difficulty,
                                         TxtExplain)])
            /\ madeWith' = [subject |-> widgets.subject, difficulty |-> widgets.difficulty,
                            topic |-> widgets.topic]
    /\ UNCHANGED <<widgets, flowLog>>
    /\ UNCHANGED <<storeVars, quizVars, gradeVars, aggVars, userVars, genVars, regradeVars>>

\* "Submit Quiz" (lines 128-147): grade the quiz shown and save the result
SubmitQuiz(filled) ==
    /\ Len(flowLog) < MaxSubmits
    /\ \A s \in Sessions : pc[s] = "idle"
    /\ session_items # <<>>
    /\ LET res == GradeQuizSubmission(session_items, FormAnswers(session_items, filled))
           r == RowDict(SaveCall(widgets, res), clock + 1)
       IN  /\ file' = [exists |-> TRUE, readable |-> TRUE,
                       rows |-> ToCsv(Concat(LoadStudentData(EnsureDemoFiles(file)), r))]
           /\ written' = Append(written, r)
           /\ flowLog' = Append(flowLog, [row |-> r, madeWith |-> madeWith,
                                          items |-> session_items])
    /\ clock' = clock + 1
    /\ UNCHANGED <<pc, row, df, raced>>
    /\ UNCHANGED <<widgets, session_items, madeWith>>
    /\ UNCHANGED <<quizVars, gradeVars, aggVars, userVars, genVars, regradeVars>>

InitFlow ==
    /\ StoreAtRest /\ QuizAtRest /\ GradeAtRest /\ AggAtRest /\ UsersAtRest /\ GenAtRest
    /\ RegradeAtRest /\ FlowAtRest

NextFlow ==
    \/ \E v \in FlowSubjects : EditInput("subject", v)
    \/ \E v \in FlowDifficulties : EditInput("difficulty", v)
    \/ \E v \in FlowTopics : EditInput("topic", v)
    \/ \E v \in FlowMcqCounts : EditInput("num_mcq", v)
    \/ \E letters \in [1..widgets.num_mcq -> FlowLetters] : CreateQuiz(letters)
    \/ \E filled \in BOOLEAN : SubmitQuiz(filled)

SpecFlow == InitFlow /\ [][NextFlow]_vars

\* C13: the record saved on Submit Quiz carries the subject, the topic (its first 100
\* characters) and the difficulty the graded items were generated with, and its total
\* is the number of those items.
C13_RecordDescribesGradedQuiz ==
    \A k \in DOMAIN flowLog :
        /\ flowLog[k].row["subject"] = StrCell(flowLog[k].madeWith.subject)
        /\ flowLog[k].row["topic"] = StrCell(Take(flowLog[k].madeWith.topic, 100))
        /\ flowLog[k].row["difficulty"] = StrCell(flowLog[k].madeWith.difficulty)
        /\ flowLog[k].row["total"] = IntCell(Len(flowLog[k].items))

=============================================================================
